---- MODULE Spec2Model ----
(***************************************************************************)
(* The metrics helpers of examples/gRPC/reverse_proxy/bookClient.js:       *)
(* getMetricsURI, kafkaMetricsQuery / extractWord (text exposition) and    *)
(* promMetricsQuery / parseProm (structured query result).                 *)
(*                                                                         *)
(* A JavaScript string is a sequence of one-character strings.  A          *)
(* JavaScript value is a record [t, n, s, a]: t its type tag, n the number *)
(* (t = "number"), s the characters (t = "string"), a the elements         *)
(* (t = "Array").  NaN is the value of tag "NaN".                          *)
(***************************************************************************)
EXTENDS Integers, Sequences, FiniteSets

\* Longest response text of the JMX endpoint, in characters.
MaxTextLen == 5
\* Longest result array of the Prometheus endpoint, in entries.
MaxEntries == 2

VARIABLES
  mode,     \* config.mode
  caller,   \* the query function running: kafkaMetricsQuery or promMetricsQuery
  pc,       \* where the running query is
  payload,  \* what axios.get resolved with (response.data / response.data.data.result)
  arr,      \* extractWord: text.split('\n')
  idx,      \* position of the for..of loop, 1-based
  names,    \* parseProm: the Set of names seen
  res,      \* the batch being accumulated
  time,     \* Date.now() of the running parse
  log,      \* the console.error calls made so far
  retval    \* what the query's promise settled with

vars == <<mode, caller, pc, payload, arr, idx, names, res, time, log, retval>>

----------------------------------------------------------------------------
(* JavaScript values *)

Num(k) == [t |-> "number", n |-> k, s |-> <<>>, a |-> <<>>]
NaNValue == [t |-> "NaN", n |-> 0, s |-> <<>>, a |-> <<>>]
Str(s) == [t |-> "string", n |-> 0, s |-> s, a |-> <<>>]
Undefined == [t |-> "undefined", n |-> 0, s |-> <<>>, a |-> <<>>]
Arr(a) == [t |-> "Array", n |-> 0, s |-> <<>>, a |-> a]

Max(S) == CHOOSE m \in S : \A k \in S : k <= m
Min2(p, q) == IF p < q THEN p ELSE q
Max2(p, q) == IF p > q THEN p ELSE q

Digits == {"0", "1", "2", "3", "4", "5", "6", "7", "8", "9"}

DigitVal(c) ==
  CASE c = "0" -> 0 [] c = "1" -> 1 [] c = "2" -> 2 [] c = "3" -> 3
    [] c = "4" -> 4 [] c = "5" -> 5 [] c = "6" -> 6 [] c = "7" -> 7
    [] c = "8" -> 8 [] c = "9" -> 9

\* String.prototype.trim over the white space of the alphabet.
WhiteSpace == {" ", "\n"}

RECURSIVE TrimLeft(_)
TrimLeft(s) ==
  IF s # <<>> /\ Head(s) \in WhiteSpace THEN TrimLeft(Tail(s)) ELSE s

RECURSIVE TrimRight(_)
TrimRight(s) ==
  IF s # <<>> /\ s[Len(s)] \in WhiteSpace
  THEN TrimRight(SubSeq(s, 1, Len(s) - 1))
  ELSE s

RECURSIVE Decimal(_)
Decimal(s) ==
  IF s = <<>> THEN 0
  ELSE 10 * Decimal(SubSeq(s, 1, Len(s) - 1)) + DigitVal(s[Len(s)])

\* Number(string): white space is trimmed, the empty string is 0, a run of
\* decimal digits is its value, any other text of the alphabet is NaN.
ToNumber(s) ==
  LET body == TrimRight(TrimLeft(s))
  IN IF \A k \in 1..Len(body) : body[k] \in Digits
     THEN Num(Decimal(body))
     ELSE NaNValue

\* The global isNaN(v): v coerced with Number() is NaN.
IsNaN(v) ==
  CASE v.t = "number" -> FALSE
    [] v.t = "NaN" -> TRUE
    [] v.t = "undefined" -> TRUE
    [] v.t = "string" -> ToNumber(v.s).t = "NaN"

\* !v for the values a label can take.
Falsy(v) == v.t = "undefined" \/ (v.t = "string" /\ v.s = <<>>)

\* v converted by string concatenation.
StringOf(v) ==
  CASE v.t = "string" -> v.s
    [] v.t = "undefined" -> <<"u", "n", "d", "e", "f", "i", "n", "e", "d">>

----------------------------------------------------------------------------
(* String methods used by extractWord *)

\* s.split('\n'): the pieces between the newlines, at least one.
RECURSIVE SplitFrom(_, _, _)
SplitFrom(s, cur, acc) ==
  IF s = <<>> THEN Append(acc, cur)
  ELSE IF Head(s) = "\n" THEN SplitFrom(Tail(s), <<>>, Append(acc, cur))
  ELSE SplitFrom(Tail(s), Append(cur, Head(s)), acc)

Split(s) == SplitFrom(s, <<>>, <<>>)

\* s.lastIndexOf(c), 0-based, -1 when c does not occur.
LastIndexOf(s, c) ==
  LET at == {k \in 1..Len(s) : s[k] = c}
  IN IF at = {} THEN -1 ELSE Max(at) - 1

\* An index argument of slice: negative counts from the end, all clamped.
SliceIndex(s, k) == IF k < 0 THEN Max2(Len(s) + k, 0) ELSE Min2(k, Len(s))

\* s.slice(from, to)
Slice(s, from, to) == SubSeq(s, SliceIndex(s, from) + 1, SliceIndex(s, to))

\* s.slice(from)
SliceFrom(s, from) == SubSeq(s, SliceIndex(s, from) + 1, Len(s))

\* s.substring(0, to)
Substring0(s, to) == SubSeq(s, 1, Min2(to, Len(s)))

----------------------------------------------------------------------------
(* getMetricsURI *)

Modes == {"kafka", "kubernetes", "docker"}

\* getMetricsURI with the final throw replaced by a default URI.
getMetricsURI_Default(m) ==
  IF m = "kubernetes" THEN [threw |-> FALSE, value |-> "promuri"]
  ELSE [threw |-> FALSE, value |-> "jmxuri"]

\* getMetricsURI(config): the URI, or the Error thrown for any other mode.
getMetricsURI(m) ==
  IF m = "kafka" THEN [threw |-> FALSE, value |-> "jmxuri"]
  ELSE IF m = "kubernetes" THEN [threw |-> FALSE, value |-> "promuri"]
  ELSE [threw |-> TRUE, value |-> "Unrecognized mode"]

----------------------------------------------------------------------------
(* What a query's promise settles with *)

Pending == [kind |-> "pending", batch |-> <<>>]
Fulfilled(batch) == [kind |-> "batch", batch |-> batch]
\* return console.error(...): the promise fulfils with undefined.
FulfilledUndefined == [kind |-> "undefined", batch |-> <<>>]
Rejected == [kind |-> "error", batch |-> <<>>]

\* The four fields of a pushed record.
Record(metric, value, now) ==
  [metric |-> metric, value |-> value, time |-> now, category |-> "Event"]

\* The readings Date.now() can give.
Clock == {1000, 2000}

----------------------------------------------------------------------------
(* extractWord *)

\* The characters a response text is made of.
Chars == {"\n", "#", " ", "1", "j", "m", "x", "'"}

Texts == UNION {[1..n -> Chars] : n \in 0..MaxTextLen}

NoPayload == [kind |-> "none", text |-> <<>>, entries |-> <<>>]
StringPayload(text) == [kind |-> "string", text |-> text, entries |-> <<>>]
\* A decoded JSON object: neither a string nor iterable.
ObjectPayload == [kind |-> "Object", text |-> <<>>, entries |-> <<>>]
ArrayPayload(entries) == [kind |-> "Array", text |-> <<>>, entries |-> entries]

\* !element || element[0] === '#'
IsComment(element) == IF element = <<>> THEN TRUE ELSE element[1] = "#"

\* The prefix test without the mode test.
IsSuppressed_AnyMode(m, element) ==
  \/ Substring0(element, 3) = <<"j", "m", "x">>
  \/ Substring0(element, 4) = <<"'", "j", "m", "x">>

\* mode === 'kafka' && (element.substring(0, 3) === 'jmx' ||
\*                      element.substring(0, 4) === "'jmx")
IsSuppressed(m, element) ==
  /\ m = "kafka"
  /\ \/ Substring0(element, 3) = <<"j", "m", "x">>
     \/ Substring0(element, 4) = <<"'", "j", "m", "x">>

\* element.slice(0, element.lastIndexOf(' '))
MetricOf(element) == Slice(element, 0, LastIndexOf(element, " "))

\* Number(element.slice(element.lastIndexOf(' ') + 1))
ValueOf(element) == ToNumber(SliceFrom(element, LastIndexOf(element, " ") + 1))

\* !isNaN(value)
IsValid(value) == ~IsNaN(value)

----------------------------------------------------------------------------
(* parseProm *)

\* info.metric of a result entry; defined = FALSE when the entry has none.
Metric(job, instance, name) ==
  [defined |-> TRUE, job |-> job, instance |-> instance, name |-> name]
NoMetric ==
  [defined |-> FALSE, job |-> Undefined, instance |-> Undefined, name |-> Undefined]

\* Label values; a job or an instance may itself hold a '/'.
Jobs == {Undefined, Str(<<"a">>), Str(<<"a", "/", "i">>)}
Instances == {Str(<<"i">>), Str(<<"i", "/", "i">>)}
MetricNames == {Str(<<"n">>)}

Metrics ==
  {NoMetric} \cup
  {Metric(j, i, n) : j \in Jobs, i \in Instances, n \in MetricNames}

\* The sample values of an entry: a number, NaN, numeric text, the text NaN,
\* other text; bare, or second in a [timestamp, value] pair; or none at all.
Scalars ==
  {Num(1), NaNValue, Str(<<"2">>), Str(<<"N", "a", "N">>), Str(<<"x">>)}

Values ==
  Scalars \cup {Undefined} \cup
  {Arr(<<Num(0), v>>) : v \in {Num(1), Str(<<"2">>), Str(<<"N", "a", "N">>)}}

Entries == {[metric |-> m, value |-> v] : m \in Metrics, v \in Values}

Results == UNION {[1..n -> Entries] : n \in 0..MaxEntries}

\* !info.metric.job
LacksJob(info) == Falsy(info.metric.job)

\* info.metric.job + '/' + info.metric.instance + '/' + info.metric['__name__']
NameOf(info) ==
  StringOf(info.metric.job) \o <<"/">> \o StringOf(info.metric.instance)
    \o <<"/">> \o StringOf(info.metric.name)

\* The name is never added.
AddName_Forget(seen, name) == seen

\* names.add(name)
AddName(seen, name) == seen \cup {name}

\* value.constructor throws a TypeError when value is undefined.
HasConstructor(value) == value.t # "undefined"

\* let value = info.value;
\* if (value.constructor.name === 'Array') value = info.value[1];
SampleOf(value) ==
  IF value.t = "Array"
  THEN IF Len(value.a) >= 2 THEN value.a[2] ELSE Undefined
  ELSE value

\* Only the literal text is tested, isNaN(value) is left out.
IsDropped_LiteralOnly(value) == value = Str(<<"N", "a", "N">>)

\* isNaN(value) || value === 'NaN'
IsDropped(value) == IsNaN(value) \/ value = Str(<<"N", "a", "N">>)

----------------------------------------------------------------------------
(* The state after the module is loaded: a configuration, no query running *)

Init ==
  /\ mode \in Modes
  /\ caller = "none"
  /\ pc = "idle"
  /\ payload = NoPayload
  /\ arr = <<>>
  /\ idx = 0
  /\ names = {}
  /\ res = <<>>
  /\ time = 0
  /\ log = <<>>
  /\ retval = Pending

\* console.error(...) of a query's catch block, and of extractWord's else branch.
FetchError == [msg |-> "Error fetching from URI", arg |-> <<>>]
InvalidMetric(element) ==
  [msg |-> "The following metric is invalid and was not saved to the database",
   arg |-> element]

\* A query starts: getMetricsURI runs outside the try block, so its Error
\* rejects the promise; otherwise the query awaits axios.get.
StartQuery(fn) ==
  /\ pc = "idle"
  /\ caller' = fn
  /\ IF getMetricsURI(mode).threw
     THEN pc' = "rejected" /\ retval' = Rejected
     ELSE pc' = "await" /\ UNCHANGED retval
  /\ UNCHANGED <<mode, payload, arr, idx, names, res, time, log>>

\* The catch block: console.error, whose undefined is returned.
Catch ==
  /\ pc' = "resolved"
  /\ log' = Append(log, FetchError)
  /\ retval' = FulfilledUndefined

kafkaMetricsQuery == StartQuery("kafkaMetricsQuery")

\* axios.get rejects (either query).
AxiosRejects ==
  /\ pc = "await"
  /\ Catch
  /\ UNCHANGED <<mode, caller, payload, arr, idx, names, res, time>>

\* axios.get resolves and extractWord(config.mode, response.data) starts:
\* text.split is not a function unless the data is a string.
KafkaResponse ==
  /\ pc = "await"
  /\ caller = "kafkaMetricsQuery"
  /\ \E data \in {StringPayload(t) : t \in Texts} \cup {ObjectPayload} :
       /\ payload' = data
       /\ IF data.kind = "string"
          THEN /\ arr' = Split(data.text)
               /\ \E now \in Clock : time' = now
               /\ idx' = 1
               /\ res' = <<>>
               /\ pc' = "extractWord"
               /\ UNCHANGED <<log, retval>>
          ELSE /\ Catch
               /\ UNCHANGED <<arr, idx, res, time>>
  /\ UNCHANGED <<mode, caller, names>>

\* One pass of extractWord's for..of loop over arr.
InExtractLoop == pc = "extractWord" /\ idx <= Len(arr)

ExtractSkipComment ==
  /\ InExtractLoop
  /\ IsComment(arr[idx])
  /\ idx' = idx + 1
  /\ UNCHANGED <<mode, caller, pc, payload, arr, names, res, time, log, retval>>

ExtractSkipSuppressed ==
  /\ InExtractLoop
  /\ ~IsComment(arr[idx])
  /\ IsSuppressed(mode, arr[idx])
  /\ idx' = idx + 1
  /\ UNCHANGED <<mode, caller, pc, payload, arr, names, res, time, log, retval>>

ExtractPush ==
  /\ InExtractLoop
  /\ ~IsComment(arr[idx])
  /\ ~IsSuppressed(mode, arr[idx])
  /\ IsValid(ValueOf(arr[idx]))
  /\ res' = Append(res, Record(MetricOf(arr[idx]), ValueOf(arr[idx]), time))
  /\ idx' = idx + 1
  /\ UNCHANGED <<mode, caller, pc, payload, arr, names, time, log, retval>>

ExtractInvalid ==
  /\ InExtractLoop
  /\ ~IsComment(arr[idx])
  /\ ~IsSuppressed(mode, arr[idx])
  /\ ~IsValid(ValueOf(arr[idx]))
  /\ log' = Append(log, InvalidMetric(arr[idx]))
  /\ idx' = idx + 1
  /\ UNCHANGED <<mode, caller, pc, payload, arr, names, res, time, retval>>

\* The loop is over: extractWord returns res, which the query returns.
ExtractReturn ==
  /\ pc = "extractWord"
  /\ idx > Len(arr)
  /\ retval' = Fulfilled(res)
  /\ pc' = "resolved"
  /\ UNCHANGED <<mode, caller, payload, arr, idx, names, res, time, log>>

promMetricsQuery == StartQuery("promMetricsQuery")

\* axios.get resolves and parseProm(response.data.data.result) starts:
\* for..of throws a TypeError unless the data is iterable.
PromResponse ==
  /\ pc = "await"
  /\ caller = "promMetricsQuery"
  /\ \E data \in {ArrayPayload(r) : r \in Results} \cup {ObjectPayload} :
       /\ payload' = data
       /\ IF data.kind = "Array"
          THEN /\ \E now \in Clock : time' = now
               /\ names' = {}
               /\ idx' = 1
               /\ res' = <<>>
               /\ pc' = "parseProm"
               /\ UNCHANGED <<log, retval>>
          ELSE /\ Catch
               /\ UNCHANGED <<names, idx, res, time>>
  /\ UNCHANGED <<mode, caller, arr>>

\* One pass of parseProm's for..of loop over data.
InPromLoop == pc = "parseProm" /\ idx <= Len(payload.entries)

\* info.metric is undefined: info.metric.job throws, the query's catch runs.
PromThrowNoMetric ==
  /\ InPromLoop
  /\ ~payload.entries[idx].metric.defined
  /\ Catch
  /\ UNCHANGED <<mode, caller, payload, arr, idx, names, res, time>>

PromSkipNoJob ==
  /\ InPromLoop
  /\ payload.entries[idx].metric.defined
  /\ LacksJob(payload.entries[idx])
  /\ idx' = idx + 1
  /\ UNCHANGED <<mode, caller, pc, payload, arr, names, res, time, log, retval>>

\* The entry has a job and its name is new.
IsNewName ==
  /\ InPromLoop
  /\ payload.entries[idx].metric.defined
  /\ ~LacksJob(payload.entries[idx])
  /\ NameOf(payload.entries[idx]) \notin names

\* A seen name overwrites its record instead of being skipped.
PromSkipSeen_Overwrite ==
  /\ InPromLoop
  /\ payload.entries[idx].metric.defined
  /\ ~LacksJob(payload.entries[idx])
  /\ NameOf(payload.entries[idx]) \in names
  /\ res' = [k \in DOMAIN res |->
               IF /\ res[k].metric = NameOf(payload.entries[idx])
                  /\ HasConstructor(payload.entries[idx].value)
                  /\ ~IsDropped(SampleOf(payload.entries[idx].value))
               THEN Record(NameOf(payload.entries[idx]),
                           SampleOf(payload.entries[idx].value), time)
               ELSE res[k]]
  /\ idx' = idx + 1
  /\ UNCHANGED <<mode, caller, pc, payload, arr, names, time, log, retval>>

PromSkipSeen ==
  /\ InPromLoop
  /\ payload.entries[idx].metric.defined
  /\ ~LacksJob(payload.entries[idx])
  /\ NameOf(payload.entries[idx]) \in names
  /\ idx' = idx + 1
  /\ UNCHANGED <<mode, caller, pc, payload, arr, names, res, time, log, retval>>

\* The name is added, then value.constructor throws: the query's catch runs.
PromThrowNoValue ==
  /\ IsNewName
  /\ names' = AddName(names, NameOf(payload.entries[idx]))
  /\ ~HasConstructor(payload.entries[idx].value)
  /\ Catch
  /\ UNCHANGED <<mode, caller, payload, arr, idx, res, time>>

\* The name is added only once the value has passed the NaN test.
PromSkipNaN_Unmarked ==
  /\ IsNewName
  /\ HasConstructor(payload.entries[idx].value)
  /\ IsDropped(SampleOf(payload.entries[idx].value))
  /\ idx' = idx + 1
  /\ UNCHANGED <<mode, caller, pc, payload, arr, names, res, time, log, retval>>

PromSkipNaN ==
  /\ IsNewName
  /\ names' = AddName(names, NameOf(payload.entries[idx]))
  /\ HasConstructor(payload.entries[idx].value)
  /\ IsDropped(SampleOf(payload.entries[idx].value))
  /\ idx' = idx + 1
  /\ UNCHANGED <<mode, caller, pc, payload, arr, res, time, log, retval>>

PromPush ==
  /\ IsNewName
  /\ names' = AddName(names, NameOf(payload.entries[idx]))
  /\ HasConstructor(payload.entries[idx].value)
  /\ ~IsDropped(SampleOf(payload.entries[idx].value))
  /\ res' = Append(res, Record(NameOf(payload.entries[idx]),
                               SampleOf(payload.entries[idx].value), time))
  /\ idx' = idx + 1
  /\ UNCHANGED <<mode, caller, pc, payload, arr, time, log, retval>>

\* The loop is over: parseProm returns res, which the query returns.
PromReturn ==
  /\ pc = "parseProm"
  /\ idx > Len(payload.entries)
  /\ retval' = Fulfilled(res)
  /\ pc' = "resolved"
  /\ UNCHANGED <<mode, caller, payload, arr, idx, names, res, time, log>>

Next ==
  \/ promMetricsQuery
  \/ PromResponse
  \/ PromThrowNoMetric
  \/ PromSkipNoJob
  \/ PromSkipSeen
  \/ PromThrowNoValue
  \/ PromSkipNaN
  \/ PromPush
  \/ PromReturn
  \/ kafkaMetricsQuery
  \/ AxiosRejects
  \/ KafkaResponse
  \/ ExtractSkipComment
  \/ ExtractSkipSuppressed
  \/ ExtractPush
  \/ ExtractInvalid
  \/ ExtractReturn

Spec == Init /\ [][Next]_vars

----------------------------------------------------------------------------
(* Vocabulary of the properties, stated on the inputs and the batch alone *)

\* The entries a structured query was given, and how many.
EntryAt(k) == payload.entries[k]
EntryCount == Len(payload.entries)

\* promMetricsQuery has returned the batch of parseProm.
PromBatchReturned ==
  caller = "promMetricsQuery" /\ pc = "resolved" /\ retval.kind = "batch"

\* The entry has a metric object with a non-empty job label.
HasJob(e) ==
  e.metric.defined /\ e.metric.job.t = "string" /\ e.metric.job.s # <<>>

\* Two entries carry the same job, instance and __name__ labels.
SameLabels(e, f) ==
  /\ e.metric.job = f.metric.job
  /\ e.metric.instance = f.metric.instance
  /\ e.metric.name = f.metric.name

\* The derived identity job/instance/__name__ of a job-bearing entry.
Identity(e) ==
  e.metric.job.s \o <<"/">> \o e.metric.instance.s \o <<"/">> \o e.metric.name.s

\* The sample of a value field: the second element of a pair, else the field.
Sample(v) ==
  IF v.t = "Array" THEN (IF Len(v.a) >= 2 THEN v.a[2] ELSE Undefined) ELSE v

\* The value is NaN, or coerces to NaN: no value, or text that is no number.
CoercesToNaN(v) ==
  \/ v.t \in {"NaN", "undefined"}
  \/ v.t = "string" /\ \E k \in 1..Len(v.s) : v.s[k] \notin Digits

\* Entry k is the first job-bearing entry of its derived identity.
IsFirstOfIdentity(k) ==
  /\ HasJob(EntryAt(k))
  /\ \A m \in 1..(k - 1) :
       HasJob(EntryAt(m)) => Identity(EntryAt(m)) # Identity(EntryAt(k))

\* The positions of a batch whose record has this metric.
Hits(batch, metric) == {k \in DOMAIN batch : batch[k].metric = metric}

----------------------------------------------------------------------------
(* C1 *)

----------------------------------------------------------------------------
(* C2 *)

\* No two records of the batch have the same metric.
UniqueMetrics(batch) ==
  \A k, m \in DOMAIN batch : k # m => batch[k].metric # batch[m].metric

\* C2, as stated: in every batch returned, in either mode, no two records have
\* the same metric string.
C2_UniqueInEitherMode == retval.kind = "batch" => UniqueMetrics(retval.batch)

\* C2, amended: in every batch accumulated and returned by structured mode
\* (parseProm) no two records have the same metric string; text mode
\* (extractWord) keeps one record per producing line, repeats included.
C2_UniqueInStructuredMode ==
  caller = "promMetricsQuery" =>
    UniqueMetrics(res) /\ UniqueMetrics(retval.batch)

\* Two entries of different labels whose derived identities coincide, both
\* with numeric samples, were parsed into a batch of one record.
C2_Witness ==
  /\ PromBatchReturned
  /\ EntryCount = 2
  /\ HasJob(EntryAt(1)) /\ HasJob(EntryAt(2))
  /\ ~SameLabels(EntryAt(1), EntryAt(2))
  /\ Identity(EntryAt(1)) = Identity(EntryAt(2))
  /\ ~CoercesToNaN(Sample(EntryAt(1).value))
  /\ ~CoercesToNaN(Sample(EntryAt(2).value))
  /\ Len(retval.batch) = 1

----------------------------------------------------------------------------
(* C3 *)

\* C3: in either mode no record of the batch, while accumulated or once
\* returned, has a value that is NaN, the text NaN or text that coerces to
\* NaN.
C3_NoNaNValue ==
  /\ \A k \in DOMAIN res : ~CoercesToNaN(res[k].value)
  /\ \A k \in DOMAIN retval.batch : ~CoercesToNaN(retval.batch[k].value)

\* A structured batch was returned that dropped the numeric NaN of one
\* identity and kept the numeric sample of another.
C3_Witness ==
  /\ PromBatchReturned
  /\ EntryCount = 2
  /\ HasJob(EntryAt(1)) /\ HasJob(EntryAt(2))
  /\ Identity(EntryAt(1)) # Identity(EntryAt(2))
  /\ EntryAt(1).value = NaNValue
  /\ ~CoercesToNaN(Sample(EntryAt(2).value))
  /\ Len(retval.batch) = 1
  /\ retval.batch[1].metric = Identity(EntryAt(2))

----------------------------------------------------------------------------
(* Vocabulary of the text-mode properties *)

\* The line being read by extractWord's loop.
AtLine == pc = "extractWord" /\ idx <= Len(arr)

\* The line starts with jmx or with 'jmx.
HasJmxPrefix(e) ==
  \/ Len(e) >= 3 /\ e[1] = "j" /\ e[2] = "m" /\ e[3] = "x"
  \/ Len(e) >= 4 /\ e[1] = "'" /\ e[2] = "j" /\ e[3] = "m" /\ e[4] = "x"

\* The line is blank or a comment.
IsBlankOrComment(e) == Len(e) = 0 \/ e[1] = "#"

Spaces(e) == {k \in 1..Len(e) : e[k] = " "}

\* Everything after the last space; the whole line when it has no space.
TokenOf(e) ==
  IF Spaces(e) = {} THEN e ELSE SubSeq(e, Max(Spaces(e)) + 1, Len(e))

\* Everything before the last space. A line without a space has no last
\* space: both readings, nothing and the whole line, are allowed.
NamePartReadings(e) ==
  IF Spaces(e) = {} THEN {<<>>, e} ELSE {SubSeq(e, 1, Max(Spaces(e)) - 1)}

IsNumericToken(t) == Len(t) > 0 /\ \A k \in 1..Len(t) : t[k] \in Digits

----------------------------------------------------------------------------
(* C4 *)

\* C4, as stated: in text mode each line that is not blank, not a comment, not
\* of the suppressed prefix, and that ends in a numeric token, produces
\* exactly one record: its metric is everything before the last space, its
\* value the number after it.
C4_NumericLineProducesRecord ==
  [][(/\ AtLine
      /\ ~IsBlankOrComment(arr[idx])
      /\ ~HasJmxPrefix(arr[idx])
      /\ IsNumericToken(TokenOf(arr[idx])))
     => \E metric \in NamePartReadings(arr[idx]) :
          res' = Append(res, [metric |-> metric,
                              value |-> Num(Decimal(TokenOf(arr[idx]))),
                              time |-> time,
                              category |-> "Event"])]_vars

----------------------------------------------------------------------------
(* C5 *)

\* C5, as stated: a malformed sample never makes the engine raise; whenever a
\* query has settled on a payload of the expected shape (a text, an array of
\* entries), it returned the batch accumulated over all its samples.
C5_SampleFailureKeepsBatch ==
  (pc = "resolved" /\ payload.kind \in {"string", "Array"})
    => retval = Fulfilled(res)

----------------------------------------------------------------------------
(* C6 *)

\* C6, as stated: structured mode given a payload that is no sequence of
\* entries reports the failure and returns an empty batch.
C6_DecodeFailureReturnsEmptyBatch ==
  (caller = "promMetricsQuery" /\ pc = "resolved" /\ payload.kind = "Object")
    => (log # <<>> /\ retval = Fulfilled(<<>>))

----------------------------------------------------------------------------
(* C7 *)

----------------------------------------------------------------------------
(* C8 *)

\* The value coerced to a number.
Coerced(v) == IF v.t = "string" THEN ToNumber(v.s) ELSE v

\* C8, as stated: in structured mode the value of a pushed record is the
\* sample of its entry (the second element of a pair, else the scalar)
\* coerced to a number.
C8_ValueCoercedToNumber ==
  [][(caller = "promMetricsQuery" /\ Len(res') = Len(res) + 1)
     => res'[Len(res')].value = Coerced(Sample(payload.entries[idx].value))]_vars

----------------------------------------------------------------------------
(* C9 *)

\* C9: a line of prefix jmx or 'jmx produces no record and no diagnostic in
\* the mode kafka; in any other mode it is parsed like any line, giving a
\* record or an invalid-metric diagnostic; a blank line and a line starting
\* with # produce no record in any mode.
C9_PrefixSuppressedOnlyInKafka ==
  [][AtLine =>
       /\ IsBlankOrComment(arr[idx]) => (res' = res /\ log' = log)
       /\ (HasJmxPrefix(arr[idx]) /\ mode = "kafka")
            => (res' = res /\ log' = log)
       /\ (HasJmxPrefix(arr[idx]) /\ mode # "kafka")
            => (Len(res') = Len(res) + 1 \/ Len(log') = Len(log) + 1)]_vars

\* The text "jmx 1" was parsed in the mode kafka: an empty batch, no
\* diagnostic.
C9_Witness ==
  /\ mode = "kafka"
  /\ caller = "kafkaMetricsQuery"
  /\ pc = "resolved"
  /\ payload.text = <<"j", "m", "x", " ", "1">>
  /\ retval = Fulfilled(<<>>)
  /\ log = <<>>

----------------------------------------------------------------------------
(* C10 *)

\* parseProm is in its loop, or promMetricsQuery has returned its batch: the
\* entries before idx have been read.
PromEntriesRead ==
  caller = "promMetricsQuery" /\ (pc = "parseProm" \/ PromBatchReturned)

\* C10: in structured mode the names seen are exactly the derived identities
\* of the job-bearing entries read so far, whatever their values; every
\* record is built from the first job-bearing entry of its identity; an
\* identity whose first job-bearing entry has a NaN value has no record.
C10_SeenBeforeValueCheck ==
  PromEntriesRead =>
    /\ names = {Identity(EntryAt(k)) :
                  k \in {m \in 1..(idx - 1) : HasJob(EntryAt(m))}}
    /\ \A r \in DOMAIN res :
         \E k \in 1..(idx - 1) :
           /\ IsFirstOfIdentity(k)
           /\ Identity(EntryAt(k)) = res[r].metric
           /\ Sample(EntryAt(k).value) = res[r].value
    /\ \A k \in 1..(idx - 1) :
         (IsFirstOfIdentity(k) /\ CoercesToNaN(Sample(EntryAt(k).value)))
           => Hits(res, Identity(EntryAt(k))) = {}

\* The first entry of an identity had a NaN value, a later entry of the same
\* labels a numeric one, and the returned batch is empty.
C10_Witness ==
  /\ PromBatchReturned
  /\ EntryCount = 2
  /\ HasJob(EntryAt(1)) /\ HasJob(EntryAt(2))
  /\ SameLabels(EntryAt(1), EntryAt(2))
  /\ CoercesToNaN(Sample(EntryAt(1).value))
  /\ ~CoercesToNaN(Sample(EntryAt(2).value))
  /\ retval.batch = <<>>

====
